---- MODULE Spec2Model ----
(***************************************************************************)
(* Model of remove_debug_logs.py (DCFlight): DebugLogCleaner, the Dart and *)
(* Swift line filters, the in-place file rewrite and the run orchestrator. *)
(*                                                                         *)
(* Text is modelled as sequences of tokens (strings); a file on disk is a  *)
(* flat token sequence, a line is the token sequence up to and including   *)
(* its "\n".  The regular expressions of the source are translated into    *)
(* matchers over tokens.  Indices i are 0-based as in the source; the line *)
(* under the cursor is lines[i + 1].                                       *)
(***************************************************************************)
EXTENDS Integers, Sequences, FiniteSets, TLC

\* Largest number of chunks of text in the file of a one-file tree.
MaxLen == 5

\* Largest number of chunks of text in each file of the several-file tree.
MaxTreeLen == 1

-----------------------------------------------------------------------------
(* Text helpers *)

NL == "\n"

\* \s of the regular expressions, over the tokens used here
IsSpace(t) == t \in {" ", NL, "\t"}

RECURSIVE Flatten(_)
\* f.writelines(cleaned_lines): the lines, concatenated
Flatten(ls) == IF ls = <<>> THEN <<>> ELSE Head(ls) \o Flatten(Tail(ls))

RECURSIVE SplitLines(_, _)
SplitLines(text, cur) ==
    IF text = <<>> THEN (IF cur = <<>> THEN <<>> ELSE <<cur>>)
    ELSE IF Head(text) = NL
         THEN <<Append(cur, NL)>> \o SplitLines(Tail(text), <<>>)
         ELSE SplitLines(Tail(text), Append(cur, Head(text)))

\* f.readlines(): split after every newline, terminators kept
ReadLines(text) == SplitLines(text, <<>>)

\* str.count(ch)
Count(line, ch) == Cardinality({k \in 1..Len(line) : line[k] = ch})

-----------------------------------------------------------------------------
(* Regular expressions.  A matcher position is an index into the line;     *)
(* 0 stands for "no match".                                                 *)

RECURSIVE SkipWhile(_, _, _)
\* greedy  X*  where X is \s (spaces = TRUE) or [^)] (spaces = FALSE)
SkipWhile(line, k, spaces) ==
    IF k = 0 THEN 0
    ELSE IF k <= Len(line) /\ (IF spaces THEN IsSpace(line[k]) ELSE line[k] # ")")
         THEN SkipWhile(line, k + 1, spaces)
         ELSE k

\* \s*
Ws(line, k) == SkipWhile(line, k, TRUE)

\* \s+
Ws1(line, k) == IF k # 0 /\ k <= Len(line) /\ IsSpace(line[k]) THEN Ws(line, k + 1) ELSE 0

\* [^)]*
NotRParen(line, k) == SkipWhile(line, k, FALSE)

\* a literal token
Lit(line, k, tok) == IF k # 0 /\ k <= Len(line) /\ line[k] = tok THEN k + 1 ELSE 0

\* \s*$  after the last element of a pattern
AtEnd(line, k) == k # 0 /\ Ws(line, k) = Len(line) + 1

\* \s*\([^)]*\)   the argument list of a call
Args(line, k) == Lit(line, NotRParen(line, Lit(line, Ws(line, k), "(")), ")")

\* ^\s*name\s*\([^)]*\)\s*;\s*$
MatchDartCall(line, name) ==
    AtEnd(line, Lit(line, Ws(line, Args(line, Lit(line, Ws(line, 1), name))), ";"))

\* ^\s*if\s*\(\s*kDebugMode\s*\)   the common prefix of the two kDebugMode patterns
IfDebugPrefix(line) ==
    Lit(line, Ws(line, Lit(line, Ws(line, Lit(line, Ws(line,
        Lit(line, Ws(line, 1), "if")), "(")), "kDebugMode")), ")")

\* ^\s*if\s*\(\s*kDebugMode\s*\)\s*print\s*\([^)]*\)\s*;\s*$
MatchDartIfPrint(line) ==
    AtEnd(line, Lit(line, Ws(line, Args(line,
        Lit(line, Ws(line, IfDebugPrefix(line)), "print"))), ";"))

\* self.dart_patterns, in order
dart_patterns == << "print", "debugPrint", "developer.log", "if-kDebugMode-print" >>

DartPatternMatches(p, line) ==
    IF p = "if-kDebugMode-print" THEN MatchDartIfPrint(line) ELSE MatchDartCall(line, p)

\* ^\s*name\s*\([^)]*\)\s*$
MatchSwiftCall(line, name) == AtEnd(line, Args(line, Lit(line, Ws(line, 1), name)))

\* self.swift_patterns, in order
swift_patterns == << "print", "NSLog", "os_log" >>

SwiftPatternMatches(p, line) == MatchSwiftCall(line, p)

\* ^\s*if\s*\(\s*kDebugMode\s*\)\s*\{\s*$
IsDartBlockOpen(line) == AtEnd(line, Lit(line, Ws(line, IfDebugPrefix(line)), "{"))

\* ^\s*#if\s+DEBUG\s*$
IsSwiftBlockOpen(line) ==
    AtEnd(line, Lit(line, Ws1(line, Lit(line, Ws(line, 1), "#if")), "DEBUG"))

\* ^\s*#endif\s*$
IsSwiftEndif(line) == AtEnd(line, Lit(line, Ws(line, 1), "#endif"))

\* the for loop over the patterns: should_remove
DartShouldRemove(line) ==
    \E n \in 1..Len(dart_patterns) : DartPatternMatches(dart_patterns[n], line)

SwiftShouldRemove(line) ==
    \E n \in 1..Len(swift_patterns) : SwiftPatternMatches(swift_patterns[n], line)

-----------------------------------------------------------------------------
(* The project tree: the input of a run *)

BoundedSeq(S, n) == UNION {[1..k -> S] : k \in 0..n}

\* every text made of at most n of the chunks
Texts(chunks, n) == {Flatten(s) : s \in BoundedSeq(chunks, n)}

DPrint == <<"print", "(", "x", ")", ";", NL>>
DOpen  == <<"if", " ", "(", "kDebugMode", ")", " ", "{", NL>>
DNest  == <<"foo", "(", ")", " ", "{", NL>>
DClose == <<"}", NL>>
DBrace == <<"}">>
DPlain == <<"return", ";", NL>>
DartChunks == {DPrint, DOpen, DNest, DClose, DBrace}

SPrint == <<"print", "(", "x", ")", NL>>
SOpen  == <<"#if", " ", "DEBUG", NL>>
SEnd   == <<"#endif", NL>>
SPlain == <<"return", NL>>
SSpace == <<" ">>
SwiftChunks == {SPrint, SOpen, SEnd, SPlain, SSpace}

\* paths relative to project_root: a sequence of parts, each a token sequence
LibA   == << <<"lib">>, <<"a", ".", "dart">> >>
LibB   == << <<"lib">>, <<"b", ".", "dart">> >>
IosA   == << <<"ios">>, <<"a", ".", "swift">> >>
Hidden == << <<".", "git">>, <<"h", ".", "dart">> >>
Notes  == << <<"notes", ".", "md">> >>
\* a directory whose name ends in .dart
Directories == { << <<"pkg", ".", "dart">> >> }

OneFileTrees ==
    {(LibA :> c) : c \in Texts(DartChunks, MaxLen)}
    \cup {(IosA :> c) : c \in Texts(SwiftChunks, MaxLen)}

ProjectTrees ==
    {(LibA :> a) @@ (LibB :> b) @@ (IosA :> c) @@ (Hidden :> DPrint) @@ (Notes :> DPrint) :
        a \in Texts({DPrint, DPlain}, MaxTreeLen),
        b \in Texts({DPrint, DPlain}, MaxTreeLen),
        c \in Texts({SPrint, SPlain}, MaxTreeLen)}

Trees == OneFileTrees \cup ProjectTrees

-----------------------------------------------------------------------------
VARIABLES
    disk,                   \* the files of the tree: path -> text
    pc,                     \* position in run / clean_*_file
    pass,                   \* "dart" or "swift": which loop of run is active
    dart_files,             \* rest of the list run iterates over
    swift_files,
    file_path,              \* argument of clean_*_file
    lines,                  \* locals of clean_*_file
    cleaned_lines,
    i,
    brace_count,
    dart_files_processed,   \* the counters of DebugLogCleaner
    swift_files_processed,
    total_lines_removed,
    runNo,                  \* history: 1 for the first run of the tool, 2 for the second
    startDisk,              \* history: the tree when the current run started
    returned,               \* history: one record per call of clean_*_file that returned
    writes,                 \* history: path -> times opened for writing in this run
    visited,                \* history: per line of the current file, what the loops did with it
    failed,                 \* history: some read or write has failed since the first run started
    prevTotal,              \* history: total_lines_removed at the end of the run before this one
    steps                   \* history: steps taken by the current run

locals == <<lines, cleaned_lines, i, brace_count, visited>>
counters == <<dart_files_processed, swift_files_processed, total_lines_removed>>
lists == <<dart_files, swift_files>>
vars == <<disk, pc, pass, dart_files, swift_files, file_path, lines, cleaned_lines, i,
          brace_count, dart_files_processed, swift_files_processed, total_lines_removed,
          runNo, startDisk, returned, writes, visited, failed, prevTotal, steps>>

NoFile == <<>>

Init ==
    /\ disk \in Trees
    /\ pc = "run"
    /\ pass = "dart"
    /\ dart_files = <<>>
    /\ swift_files = <<>>
    /\ file_path = NoFile
    /\ lines = <<>>
    /\ cleaned_lines = <<>>
    /\ i = 0
    /\ brace_count = 0
    /\ dart_files_processed = 0
    /\ swift_files_processed = 0
    /\ total_lines_removed = 0
    /\ runNo = 1
    /\ startDisk = disk
    /\ returned = <<>>
    /\ writes = [p \in DOMAIN disk |-> 0]
    /\ visited = <<>>
    /\ failed = FALSE
    /\ prevTotal = 0
    /\ steps = 0

-----------------------------------------------------------------------------
(* find_files *)

\* part.startswith('.')
StartsWithDot(part) == Len(part) > 0 /\ part[1] = "."

\* rglob("*.<ext>"): every entry under the root whose name ends in .<ext>
RGlob(ext) ==
    {p \in DOMAIN disk \cup Directories :
        LET name == p[Len(p)]
        IN  Len(name) >= 2 /\ name[Len(name)] = ext /\ name[Len(name) - 1] = "."}

find_files(ext) ==
    {p \in RGlob(ext) :
        /\ ~ \E k \in 1..Len(p) : StartsWithDot(p[k])
        /\ p \in DOMAIN disk}

\* the orders in which the traversal can list a set of files
Orders(S) == {s \in [1..Cardinality(S) -> S] : \A a, b \in 1..Cardinality(S) : s[a] = s[b] => a = b}

-----------------------------------------------------------------------------
(* run *)

FindDart ==
    /\ steps' = steps + 1
    /\ pc = "run"
    /\ dart_files' \in Orders(find_files("dart"))
    /\ pass' = "dart"
    /\ pc' = "dart_loop"
    /\ UNCHANGED <<prevTotal, disk, swift_files, file_path, locals, counters, runNo, startDisk,
                   returned, writes, failed>>

DartNext ==
    /\ steps' = steps + 1
    /\ pc = "dart_loop"
    /\ dart_files # <<>>
    /\ file_path' = Head(dart_files)
    /\ dart_files' = Tail(dart_files)
    /\ pc' = "read"
    /\ UNCHANGED <<prevTotal, disk, pass, swift_files, locals, counters, runNo, startDisk,
                   returned, writes, failed>>

FindSwift ==
    /\ steps' = steps + 1
    /\ pc = "dart_loop"
    /\ dart_files = <<>>
    /\ swift_files' \in Orders(find_files("swift"))
    /\ pass' = "swift"
    /\ pc' = "swift_loop"
    /\ UNCHANGED <<prevTotal, disk, dart_files, file_path, locals, counters, runNo, startDisk,
                   returned, writes, failed>>

SwiftNext ==
    /\ steps' = steps + 1
    /\ pc = "swift_loop"
    /\ swift_files # <<>>
    /\ file_path' = Head(swift_files)
    /\ swift_files' = Tail(swift_files)
    /\ pc' = "read"
    /\ UNCHANGED <<prevTotal, disk, pass, dart_files, locals, counters, runNo, startDisk,
                   returned, writes, failed>>

\* the summary is printed and run returns
Summary ==
    /\ steps' = steps + 1
    /\ pc = "swift_loop"
    /\ swift_files = <<>>
    /\ pc' = "done"
    /\ UNCHANGED <<prevTotal, disk, pass, lists, file_path, locals, counters, runNo, startDisk,
                   returned, writes, failed>>

\* main() once more, right after a run in which nothing failed: a new DebugLogCleaner
\* on the tree the first run left
Rerun ==
    /\ pc = "done"
    /\ runNo = 1
    /\ ~ failed
    /\ runNo' = 2
    /\ prevTotal' = total_lines_removed
    /\ steps' = 0
    /\ pc' = "run"
    /\ pass' = "dart"
    /\ dart_files_processed' = 0
    /\ swift_files_processed' = 0
    /\ total_lines_removed' = 0
    /\ startDisk' = disk
    /\ returned' = <<>>
    /\ writes' = [p \in DOMAIN disk |-> 0]
    /\ UNCHANGED <<disk, lists, file_path, locals, failed>>

-----------------------------------------------------------------------------
(* clean_dart_file / clean_swift_file *)

\* where the for loop of run continues after clean_*_file returns
LoopPc == IF pass = "dart" THEN "dart_loop" ELSE "swift_loop"

\* history: what the call that returns did
Call(outcome, value) ==
    [file |-> file_path, lang |-> pass, outcome |-> outcome, value |-> value,
     input |-> lines, output |-> cleaned_lines, before |-> total_lines_removed]

\* history: the loops did `what` with line i
Mark(what) == [visited EXCEPT ![i + 1] = Append(@, what)]

\* the locals are gone when the call returns
DropLocals ==
    /\ lines' = <<>>
    /\ cleaned_lines' = <<>>
    /\ i' = 0
    /\ brace_count' = 0
    /\ visited' = <<>>

\* with open(file_path, 'r') ... f.readlines(), then the locals are set up
ReadOk ==
    /\ steps' = steps + 1
    /\ pc = "read"
    /\ lines' = ReadLines(disk[file_path])
    /\ cleaned_lines' = <<>>
    /\ i' = 0
    /\ visited' = [k \in 1..Len(ReadLines(disk[file_path])) |-> <<>>]
    /\ pc' = "scan"
    /\ UNCHANGED <<prevTotal, disk, pass, lists, file_path, brace_count, counters, runNo, startDisk,
                   returned, writes, failed>>

\* faulty variant: no except clause: the exception leaves run
ReadFailAborts ==
    /\ steps' = steps + 1
    /\ pc = "read"
    /\ failed' = TRUE
    /\ pc' = "aborted"
    /\ UNCHANGED <<prevTotal, disk, pass, lists, file_path, locals, counters, runNo,
                   startDisk, returned, writes>>

\* open or readlines raises: except Exception ... return 0
ReadFail ==
    /\ steps' = steps + 1
    /\ pc = "read"
    /\ returned' = Append(returned, Call("read_failed", 0))
    /\ failed' = TRUE
    /\ pc' = LoopPc
    /\ UNCHANGED <<prevTotal, disk, pass, lists, file_path, locals, counters, runNo, startDisk, writes>>

\* next_line.count('{') - next_line.count('}')
BraceDelta(line) == Count(line, "{") - Count(line, "}")

\* faulty variant: the skip goes on until the counter is exactly 0
DartSkipUntilZero(idx, n, count) == idx < n /\ count # 0

\* faulty variant: the skip stops one line before the end of the file
DartSkipStopsEarly(idx, n, count) == idx < n - 1 /\ count > 0

\* while i < len(lines) and brace_count > 0
DartSkipContinues(idx, n, count) == idx < n /\ count > 0

\* faulty variant: a retained line is put in front of the output
RetainInFront(cleaned, line) == <<line>> \o cleaned

\* faulty variant: a retained line replaces the output
RetainOnlyLast(cleaned, line) == <<line>>

\* cleaned_lines.append(line)
Retain(cleaned, line) == Append(cleaned, line)

\* faulty variant: the opener line is not stepped over before the inner loop
DartOpenBlockNoAdvance ==
    /\ steps' = steps + 1
    /\ pc = "scan" /\ pass = "dart"
    /\ i < Len(lines)
    /\ IsDartBlockOpen(lines[i + 1])
    /\ brace_count' = 1
    /\ i' = i
    /\ visited' = Mark("opener")
    /\ pc' = "skip"
    /\ UNCHANGED <<prevTotal, disk, pass, lists, file_path, lines, cleaned_lines, counters,
                   runNo, startDisk, returned, writes, failed>>

\* the opener line: brace_count = 1; i += 1
DartOpenBlock ==
    /\ steps' = steps + 1
    /\ pc = "scan" /\ pass = "dart"
    /\ i < Len(lines)
    /\ IsDartBlockOpen(lines[i + 1])
    /\ brace_count' = 1
    /\ i' = i + 1
    /\ visited' = Mark("opener")
    /\ pc' = "skip"
    /\ UNCHANGED <<prevTotal, disk, pass, lists, file_path, lines, cleaned_lines, counters, runNo,
                   startDisk, returned, writes, failed>>

\* one iteration of the inner while loop
DartSkipLine ==
    /\ steps' = steps + 1
    /\ pc = "skip" /\ pass = "dart"
    /\ DartSkipContinues(i, Len(lines), brace_count)
    /\ brace_count' = brace_count + BraceDelta(lines[i + 1])
    /\ i' = i + 1
    /\ visited' = Mark("skipped")
    /\ UNCHANGED <<prevTotal, disk, pc, pass, lists, file_path, lines, cleaned_lines, counters, runNo,
                   startDisk, returned, writes, failed>>

\* the inner loop ends: continue
DartSkipEnd ==
    /\ steps' = steps + 1
    /\ pc = "skip" /\ pass = "dart"
    /\ ~ DartSkipContinues(i, Len(lines), brace_count)
    /\ pc' = "scan"
    /\ UNCHANGED <<prevTotal, disk, pass, lists, file_path, locals, counters, runNo, startDisk,
                   returned, writes, failed>>

\* a line that opens no block: the patterns, then append or not; i += 1
DartScanLine ==
    /\ steps' = steps + 1
    /\ pc = "scan" /\ pass = "dart"
    /\ i < Len(lines)
    /\ ~ IsDartBlockOpen(lines[i + 1])
    /\ IF DartShouldRemove(lines[i + 1])
       THEN /\ cleaned_lines' = cleaned_lines
            /\ visited' = Mark("removed")
       ELSE /\ cleaned_lines' = Retain(cleaned_lines, lines[i + 1])
            /\ visited' = Mark("kept")
    /\ i' = i + 1
    /\ UNCHANGED <<prevTotal, disk, pc, pass, lists, file_path, lines, brace_count, counters, runNo,
                   startDisk, returned, writes, failed>>

\* the #if DEBUG line: i += 1
SwiftOpenBlock ==
    /\ steps' = steps + 1
    /\ pc = "scan" /\ pass = "swift"
    /\ i < Len(lines)
    /\ IsSwiftBlockOpen(lines[i + 1])
    /\ i' = i + 1
    /\ visited' = Mark("opener")
    /\ pc' = "skip"
    /\ UNCHANGED <<prevTotal, disk, pass, lists, file_path, lines, cleaned_lines, brace_count, counters,
                   runNo, startDisk, returned, writes, failed>>

\* faulty variant: on #endif the loop breaks without stepping over the line
SwiftSkipLineKeepsEndif ==
    /\ steps' = steps + 1
    /\ pc = "skip" /\ pass = "swift"
    /\ i < Len(lines)
    /\ IF IsSwiftEndif(lines[i + 1])
       THEN /\ i' = i
            /\ visited' = visited
            /\ pc' = "scan"
       ELSE /\ i' = i + 1
            /\ visited' = Mark("skipped")
            /\ pc' = "skip"
    /\ UNCHANGED <<prevTotal, disk, pass, lists, file_path, lines, cleaned_lines, brace_count,
                   counters, runNo, startDisk, returned, writes, failed>>

\* one iteration of the inner while loop; on #endif: i += 1; break; continue
SwiftSkipLine ==
    /\ steps' = steps + 1
    /\ pc = "skip" /\ pass = "swift"
    /\ i < Len(lines)
    /\ i' = i + 1
    /\ visited' = Mark("skipped")
    /\ pc' = IF IsSwiftEndif(lines[i + 1]) THEN "scan" ELSE "skip"
    /\ UNCHANGED <<prevTotal, disk, pass, lists, file_path, lines, cleaned_lines, brace_count, counters,
                   runNo, startDisk, returned, writes, failed>>

\* the inner loop runs off the end of the file: continue
SwiftSkipEnd ==
    /\ steps' = steps + 1
    /\ pc = "skip" /\ pass = "swift"
    /\ i >= Len(lines)
    /\ pc' = "scan"
    /\ UNCHANGED <<prevTotal, disk, pass, lists, file_path, locals, counters, runNo, startDisk,
                   returned, writes, failed>>

SwiftScanLine ==
    /\ steps' = steps + 1
    /\ pc = "scan" /\ pass = "swift"
    /\ i < Len(lines)
    /\ ~ IsSwiftBlockOpen(lines[i + 1])
    /\ IF SwiftShouldRemove(lines[i + 1])
       THEN /\ cleaned_lines' = cleaned_lines
            /\ visited' = Mark("removed")
       ELSE /\ cleaned_lines' = Retain(cleaned_lines, lines[i + 1])
            /\ visited' = Mark("kept")
    /\ i' = i + 1
    /\ UNCHANGED <<prevTotal, disk, pc, pass, lists, file_path, lines, brace_count, counters, runNo,
                   startDisk, returned, writes, failed>>

\* lines_removed = original_count - len(cleaned_lines)
LinesRemoved == Len(lines) - Len(cleaned_lines)

\* faulty variant: the file is rewritten whether or not a line was removed
ShouldWriteAlways(lines_removed) == lines_removed >= 0

\* if lines_removed > 0
ShouldWrite(lines_removed) == lines_removed > 0

\* faulty variant: the unfiltered lines are written back
WrittenOriginal(original, cleaned) == Flatten(original)

\* what f.writelines puts in the file
Written(original, cleaned) == Flatten(cleaned)

\* faulty variant: the total counts files, not lines
AddOne(total, lines_removed) == total + 1

\* self.total_lines_removed += lines_removed
AddRemoved(total, lines_removed) == total + lines_removed

\* self.dart_files_processed += 1  /  self.swift_files_processed += 1
CountFile ==
    /\ dart_files_processed' = dart_files_processed + (IF pass = "dart" THEN 1 ELSE 0)
    /\ swift_files_processed' = swift_files_processed + (IF pass = "swift" THEN 1 ELSE 0)

\* the outer loop has ended and nothing was removed: no write, count the file, return
FinishUnchanged ==
    /\ steps' = steps + 1
    /\ pc = "scan"
    /\ i >= Len(lines)
    /\ ~ ShouldWrite(LinesRemoved)
    /\ CountFile
    /\ returned' = Append(returned, Call("ok", LinesRemoved))
    /\ DropLocals
    /\ pc' = LoopPc
    /\ UNCHANGED <<prevTotal, disk, pass, lists, file_path, total_lines_removed, runNo, startDisk,
                   writes, failed>>

\* the outer loop has ended and lines were removed: write, add, count the file, return
WriteOk ==
    /\ steps' = steps + 1
    /\ pc = "scan"
    /\ i >= Len(lines)
    /\ ShouldWrite(LinesRemoved)
    /\ disk' = [disk EXCEPT ![file_path] = Written(lines, cleaned_lines)]
    /\ writes' = [writes EXCEPT ![file_path] = @ + 1]
    /\ total_lines_removed' = AddRemoved(total_lines_removed, LinesRemoved)
    /\ CountFile
    /\ returned' = Append(returned, Call("ok", LinesRemoved))
    /\ DropLocals
    /\ pc' = LoopPc
    /\ UNCHANGED <<prevTotal, pass, lists, file_path, runNo, startDisk, failed>>

\* what a failed write can leave in the file: the old text when open fails; once the
\* file is opened (and truncated), whatever part of the new text went out before the
\* failure (by whole lines here)
AfterFailedWrite(old, cleaned) ==
    {old} \cup {Flatten(SubSeq(cleaned, 1, k)) : k \in 0..Len(cleaned)}

\* open(file_path, 'w') or writelines raises: except Exception ... return 0
WriteFail ==
    /\ steps' = steps + 1
    /\ pc = "scan"
    /\ i >= Len(lines)
    /\ ShouldWrite(LinesRemoved)
    /\ \E text \in AfterFailedWrite(disk[file_path], cleaned_lines) :
           disk' = [disk EXCEPT ![file_path] = text]
    /\ writes' = [writes EXCEPT ![file_path] = @ + 1]
    /\ returned' = Append(returned, Call("write_failed", 0))
    /\ failed' = TRUE
    /\ DropLocals
    /\ pc' = LoopPc
    /\ UNCHANGED <<prevTotal, pass, lists, file_path, counters, runNo, startDisk>>

-----------------------------------------------------------------------------

Next ==
    \/ FindDart \/ DartNext \/ FindSwift \/ SwiftNext \/ Summary \/ Rerun
    \/ ReadOk \/ ReadFail
    \/ DartOpenBlock \/ DartSkipLine \/ DartSkipEnd \/ DartScanLine
    \/ SwiftOpenBlock \/ SwiftSkipLine \/ SwiftSkipEnd \/ SwiftScanLine
    \/ FinishUnchanged \/ WriteOk \/ WriteFail

Spec == Init /\ [][Next]_vars

-----------------------------------------------------------------------------
(* Vocabulary of the properties *)

RECURSIVE IsSubseq(_, _)
\* a is b with some elements left out
IsSubseq(a, b) ==
    IF a = <<>> THEN TRUE
    ELSE IF b = <<>> THEN FALSE
    ELSE IF Head(a) = Head(b) THEN IsSubseq(Tail(a), Tail(b))
    ELSE IsSubseq(a, Tail(b))

RECURSIVE KeptUpTo(_)
\* the lines 1..n that normal scanning retained, in order
KeptUpTo(n) ==
    IF n = 0 THEN <<>>
    ELSE IF visited[n] = <<"kept">> THEN Append(KeptUpTo(n - 1), lines[n])
    ELSE KeptUpTo(n - 1)

RECURSIVE Counter(_, _)
\* the nesting counter of the block opened on line k (1-based) after line j >= k
Counter(k, j) == IF j <= k THEN 1 ELSE Counter(k, j - 1) + BraceDelta(lines[j])

RECURSIVE SumValues(_)
SumValues(calls) == IF calls = <<>> THEN 0 ELSE Head(calls).value + SumValues(Tail(calls))

\* the outer loop of clean_*_file has just ended
LoopExit(lang) == pc = "scan" /\ pass = lang /\ i >= Len(lines)

\* line k was reached by normal scanning, not consumed by a block skip
Scanned(k) == visited[k] # <<>> /\ visited[k][1] # "skipped"

\* line k was handled by normal scanning and by nothing else
ScannedOnce(k) == visited[k] \in {<<"opener">>, <<"kept">>, <<"removed">>}

\* lines a..b were consumed by the block skip and by nothing else
SkippedOnly(a, b) == \A m \in a..b : visited[m] = <<"skipped">>

NoDebugLine(lang, ls) ==
    \A k \in 1..Len(ls) :
        IF lang = "dart"
        THEN ~ IsDartBlockOpen(ls[k]) /\ ~ DartShouldRemove(ls[k])
        ELSE ~ IsSwiftBlockOpen(ls[k]) /\ ~ SwiftShouldRemove(ls[k])

Discovered == find_files("dart") \cup find_files("swift")

\* total_lines_removed right after call k returned
TotalAfter(k) == IF k < Len(returned) THEN returned[k + 1].before ELSE total_lines_removed

-----------------------------------------------------------------------------
(* C1 *)

\* C1: idempotence.  In a second run right after a first run without I/O failures the
\* filters remove nothing: every file read comes out of its filter unchanged, no file
\* is written, the tree stays as the first run left it and total_lines_removed is 0.
C1_SecondRunRemovesNothing ==
    (runNo = 2 /\ ~ failed) =>
        /\ total_lines_removed = 0
        /\ \A p \in DOMAIN writes : writes[p] = 0
        /\ disk = startDisk
        /\ \A k \in 1..Len(returned) : returned[k].output = returned[k].input
        /\ (pc = "scan" /\ i >= Len(lines)) => cleaned_lines = lines

C1_Witness ==
    /\ runNo = 2 /\ ~ failed /\ pc = "done"
    /\ prevTotal >= 2
    /\ Len(returned) >= 1
    /\ \E k \in 1..Len(returned) : Len(returned[k].input) >= 2

-----------------------------------------------------------------------------
(* C2 *)

\* C2: during one run no file is processed twice, every file is opened for writing at
\* most once and only if its filter removed at least one line; a file whose filter
\* removed no line, and every file that was not opened for writing, keeps its text.
C2_WrittenOnceOnlyWhenRemoved ==
    /\ \A p \in DOMAIN writes : writes[p] <= 1
    /\ \A j, k \in 1..Len(returned) : returned[j].file = returned[k].file => j = k
    /\ \A p \in DOMAIN writes :
          writes[p] = 1 =>
              \E k \in 1..Len(returned) :
                  /\ returned[k].file = p
                  /\ Len(returned[k].input) - Len(returned[k].output) > 0
    /\ \A k \in 1..Len(returned) :
          Len(returned[k].input) - Len(returned[k].output) = 0 =>
              /\ writes[returned[k].file] = 0
              /\ disk[returned[k].file] = startDisk[returned[k].file]
    /\ \A p \in DOMAIN writes : writes[p] = 0 => disk[p] = startDisk[p]

C2_Witness ==
    /\ pc = "done"
    /\ \E j, k \in 1..Len(returned) :
          /\ returned[j].outcome = "ok" /\ returned[j].value > 0
          /\ writes[returned[j].file] = 1
          /\ disk[returned[j].file] # startDisk[returned[j].file]
          /\ returned[k].outcome = "ok" /\ returned[k].value = 0
          /\ returned[k].input # <<>>
          /\ writes[returned[k].file] = 0

-----------------------------------------------------------------------------
(* C3 *)

\* C3: the output of the Dart filter and of the Swift filter is a subsequence of its
\* input, while the filter runs and when it has returned.
C3_OutputIsSubsequence ==
    /\ pc \in {"scan", "skip"} => IsSubseq(cleaned_lines, lines)
    /\ \A k \in 1..Len(returned) : IsSubseq(returned[k].output, returned[k].input)

C3_Witness ==
    /\ pc = "scan" /\ i >= Len(lines)
    /\ Len(cleaned_lines) >= 2
    /\ Len(cleaned_lines) < Len(lines)
    /\ cleaned_lines[1] # cleaned_lines[2]

-----------------------------------------------------------------------------
(* C4 *)

\* C4: a file none of whose lines matches a per-line pattern of its language or opens a
\* block comes out of the filter as it went in, its removed-line count is 0, it is not
\* written and total_lines_removed is the same after the call as before it.
C4_NoDebugLinesNoChange ==
    /\ (pc = "scan" /\ i >= Len(lines) /\ NoDebugLine(pass, lines)) => cleaned_lines = lines
    /\ \A k \in 1..Len(returned) :
          (returned[k].outcome = "ok" /\ NoDebugLine(returned[k].lang, returned[k].input)) =>
              /\ returned[k].output = returned[k].input
              /\ returned[k].value = 0
              /\ writes[returned[k].file] = 0
              /\ disk[returned[k].file] = startDisk[returned[k].file]
              /\ TotalAfter(k) = returned[k].before

C4_Witness ==
    /\ pc = "done"
    /\ \E k \in 1..Len(returned) :
          /\ returned[k].outcome = "ok"
          /\ NoDebugLine(returned[k].lang, returned[k].input)
          /\ Len(returned[k].input) >= 2
          /\ disk[returned[k].file] # <<>>

-----------------------------------------------------------------------------
(* C5 *)

RECURSIVE StepBound(_)
\* more steps than a run over the files F can take: per file the loop step, the read,
\* at most two steps per line and the return; FindDart, FindSwift and Summary
StepBound(F) ==
    IF F = {} THEN 3
    ELSE LET f == CHOOSE x \in F : TRUE
         IN  2 * Len(ReadLines(startDisk[f])) + 3 + StepBound(F \ {f})

\* C5: a failed read or write ends only the call it happens in, which returns 0 and
\* leaves total_lines_removed alone; after every call, failed or not, run goes on with
\* the next file, the next pass or the summary; a run takes a bounded number of steps,
\* and at the summary every discovered file of both passes has been handed to its
\* cleaner exactly once.
C5_FailureDoesNotAbortRun ==
    /\ pc \in {"run", "dart_loop", "swift_loop", "read", "scan", "skip", "done"}
    /\ pc \in {"dart_loop", "swift_loop"} =>
          ENABLED (DartNext \/ FindSwift \/ SwiftNext \/ Summary)
    /\ steps <= StepBound(Discovered)
    /\ \A k \in 1..Len(returned) :
          returned[k].outcome # "ok" =>
              /\ returned[k].value = 0
              /\ TotalAfter(k) = returned[k].before
    /\ pc = "done" =>
          /\ {returned[k].file : k \in 1..Len(returned)} = Discovered
          /\ Len(returned) = Cardinality(Discovered)

C5_Witness ==
    /\ pc = "done"
    /\ Len(returned) = 3
    /\ \A k \in 1..Len(returned) : returned[k].outcome # "ok"
    /\ \E k \in 1..Len(returned) : returned[k].outcome = "read_failed"
    /\ \E k \in 1..Len(returned) : returned[k].outcome = "write_failed"

-----------------------------------------------------------------------------
(* C6 *)

\* the first line after k after which the counter of the block opened on line k is 0
\* (exact) or is 0 or less (not exact); 0 when there is none
BlockEnd(k, exact) ==
    LET ends == {j \in (k + 1)..Len(lines) :
                    IF exact THEN Counter(k, j) = 0 ELSE Counter(k, j) <= 0}
    IN  IF ends = {} THEN 0 ELSE CHOOSE j \in ends : \A m \in ends : j <= m

\* the opener line of the block being skipped
CurrentOpener ==
    CHOOSE k \in 1..i : visited[k] = <<"opener">> /\ \A m \in (k + 1)..i : visited[m] # <<"opener">>

\* the brace-counted skip, with the block ending where BlockEnd(_, exact) says
DartBlockSkip(exact) ==
    /\ (pc = "skip" /\ pass = "dart") => brace_count = Counter(CurrentOpener, i)
    /\ LoopExit("dart") =>
          /\ cleaned_lines = KeptUpTo(Len(lines))
          /\ \A k \in 1..Len(lines) :
                (Scanned(k) /\ IsDartBlockOpen(lines[k]) /\ BlockEnd(k, exact) # 0) =>
                    /\ visited[k] = <<"opener">>
                    /\ SkippedOnly(k + 1, BlockEnd(k, exact))
                    /\ BlockEnd(k, exact) < Len(lines) => ScannedOnce(BlockEnd(k, exact) + 1)

\* C6 as claimed: on an 'if (kDebugMode) {' line the opener is discarded, the counter
\* starts at 1 and grows by each following line's '{' count minus its '}' count; the
\* last skipped line is the first line after which the counter equals 0, no skipped
\* line is emitted and normal scanning resumes on the next line.
C6_Claimed_SkipEndsAtCounterZero == DartBlockSkip(TRUE)

\* C6 as amended: the same, with the last skipped line being the first line after which
\* the counter is 0 or less.
C6_SkipEndsAtCounterNotPositive == DartBlockSkip(FALSE)

C6_Witness ==
    /\ LoopExit("dart")
    /\ \E k \in 1..Len(lines) :
          /\ Scanned(k) /\ IsDartBlockOpen(lines[k])
          /\ BlockEnd(k, FALSE) # 0
          /\ \E m \in (k + 1)..(BlockEnd(k, FALSE) - 1) : BraceDelta(lines[m]) > 0
          /\ BlockEnd(k, FALSE) < Len(lines)
          /\ visited[BlockEnd(k, FALSE) + 1] = <<"kept">>

-----------------------------------------------------------------------------
(* C7 *)

\* the first '#endif' line after line k; 0 when there is none
FirstEndif(k) ==
    LET ends == {j \in (k + 1)..Len(lines) : IsSwiftEndif(lines[j])}
    IN  IF ends = {} THEN 0 ELSE CHOOSE j \in ends : \A m \in ends : j <= m

\* C7: when normal scanning is on a '#if DEBUG' line and an '#endif' line follows, the
\* '#if DEBUG' line, the lines up to the first following '#endif' and that '#endif' are
\* discarded, and the line after that '#endif' is handled by normal scanning.
C7_SkipThroughFirstEndif ==
    LoopExit("swift") =>
        /\ cleaned_lines = KeptUpTo(Len(lines))
        /\ \A k \in 1..Len(lines) :
              (Scanned(k) /\ IsSwiftBlockOpen(lines[k]) /\ FirstEndif(k) # 0) =>
                  /\ visited[k] = <<"opener">>
                  /\ SkippedOnly(k + 1, FirstEndif(k))
                  /\ FirstEndif(k) < Len(lines) => ScannedOnce(FirstEndif(k) + 1)

C7_Witness ==
    /\ LoopExit("swift")
    /\ \E k \in 1..Len(lines) :
          /\ Scanned(k) /\ IsSwiftBlockOpen(lines[k])
          /\ FirstEndif(k) >= k + 2
          /\ FirstEndif(k) < Len(lines)
          /\ visited[FirstEndif(k) + 1] = <<"kept">>

-----------------------------------------------------------------------------
(* C8 *)

\* the block opened on line k is never closed: for Dart the counter never returns to 0
\* (exact) or stays above 0 (not exact); for Swift no '#endif' line follows
Unterminated(lang, k, exact) ==
    IF lang = "dart"
    THEN /\ IsDartBlockOpen(lines[k])
         /\ \A j \in (k + 1)..Len(lines) :
               IF exact THEN Counter(k, j) # 0 ELSE Counter(k, j) > 0
    ELSE /\ IsSwiftBlockOpen(lines[k])
         /\ FirstEndif(k) = 0

UnterminatedBlock(exact) ==
    /\ pc = "skip" /\ i >= Len(lines) => ENABLED (DartSkipEnd \/ SwiftSkipEnd)
    /\ \A lang \in {"dart", "swift"} :
          LoopExit(lang) =>
              \A k \in 1..Len(lines) :
                  (Scanned(k) /\ Unterminated(lang, k, exact)) =>
                      /\ visited[k] = <<"opener">>
                      /\ SkippedOnly(k + 1, Len(lines))
                      /\ cleaned_lines = KeptUpTo(k - 1)
                      /\ LinesRemoved >= Len(lines) - k + 1
                      /\ ENABLED WriteOk

\* C8 as claimed: when the counter of a Dart block never returns to 0, or no '#endif'
\* follows a Swift '#if DEBUG', the opener and every line after it are discarded, the
\* output is the lines retained before the opener, the filter ends normally and the
\* removed count includes the discarded lines.
C8_Claimed_NeverZeroConsumesRest == UnterminatedBlock(TRUE)

\* C8 as amended: the same, for a Dart block whose counter stays above 0 on every
\* following line.
C8_UnterminatedConsumesRest == UnterminatedBlock(FALSE)

C8_Witness ==
    /\ pc = "scan" /\ i >= Len(lines)
    /\ \E k \in 2..(Len(lines) - 2) :
          /\ Scanned(k) /\ Unterminated(pass, k, FALSE)
          /\ cleaned_lines # <<>>
          /\ pass = "dart" => \E m \in (k + 1)..Len(lines) : BraceDelta(lines[m]) # 0

-----------------------------------------------------------------------------
(* C9 *)

\* inside the loops the cursor is within the input, every line behind it has been
\* handled exactly once (by normal scanning or by a block skip) and no line ahead of it
\* has been touched
C9_CursorInvariant ==
    pc \in {"scan", "skip"} =>
        /\ 0 <= i /\ i <= Len(lines)
        /\ \A m \in 1..i : Len(visited[m]) = 1
        /\ \A m \in (i + 1)..Len(lines) : visited[m] = <<>>

\* a step inside the loops moves the cursor forward by one line; only the end of a
\* block skip (continue) leaves it where it is
C9_CursorStep ==
    (pc \in {"scan", "skip"} /\ pc' \in {"scan", "skip"}) =>
        \/ i' = i + 1
        \/ i' = i /\ pc = "skip" /\ pc' = "scan"

\* C9: filtering is one forward pass: the cursor never moves back and advances on every
\* iteration, each line is visited exactly once, by normal scanning or by the block
\* skip and never by both, and the loop ends with the cursor at the input length.
C9_SingleForwardPass == [] C9_CursorInvariant /\ [][C9_CursorStep]_vars

C9_Witness ==
    /\ pc = "scan" /\ i = Len(lines) /\ i >= 4
    /\ \E a, b, c, d \in 1..Len(lines) :
          /\ visited[a] = <<"opener">>
          /\ visited[b] = <<"skipped">>
          /\ visited[c] = <<"kept">>
          /\ visited[d] = <<"removed">>

-----------------------------------------------------------------------------
(* C10 *)

\* total_lines_removed is the sum of what the calls returned; a call that did not fail
\* returned its input length minus its output length, a call that failed returned 0
C10_TotalIsSumOfReturns ==
    /\ total_lines_removed = SumValues(returned)
    /\ \A k \in 1..Len(returned) :
          returned[k].value =
              IF returned[k].outcome = "ok"
              THEN Len(returned[k].input) - Len(returned[k].output)
              ELSE 0

\* within a run no counter decreases
C10_CountersGrow ==
    runNo' = runNo =>
        /\ dart_files_processed' >= dart_files_processed
        /\ swift_files_processed' >= swift_files_processed
        /\ total_lines_removed' >= total_lines_removed

\* C10: during a run dart_files_processed, swift_files_processed and
\* total_lines_removed never decrease, and total_lines_removed is always the sum of the
\* values clean_dart_file and clean_swift_file have returned so far.
C10_CountersConsistent == [] C10_TotalIsSumOfReturns /\ [][C10_CountersGrow]_vars

C10_Witness ==
    /\ pc = "done"
    /\ total_lines_removed >= 2
    /\ \E j, k \in 1..Len(returned) :
          /\ returned[j].outcome = "ok" /\ returned[j].value >= 1
          /\ returned[k].outcome = "write_failed"
          /\ Len(returned[k].input) > Len(returned[k].output)

====
